---------------------------- MODULE Spec2Model ----------------------------
(***************************************************************************)
(* Structured logging and request observability of go-api:                 *)
(*   - the process-wide zap logger (Init, leveled / formatted / contextual *)
(*     logging calls, multi-core fan-out),                                 *)
(*   - RequestIDMiddleware and GinZap running in a gin handler chain,      *)
(*   - concurrent in-flight requests writing through the cores' sinks.     *)
(***************************************************************************)
EXTENDS Integers, Sequences, FiniteSets, TLC

VARIABLES
    globalLogger,   \* *zap.Logger, package variable
    sugaredLogger,  \* *zap.SugaredLogger, package variable
    out,            \* out[i]: the records written through core i's WriteSyncer
    initErr,        \* return value of the most recent Init: "none", "nil", "error"
    applied,        \* the Config globalLogger was built from
    lastOp,         \* the operation that ran last and what it did
    written,        \* logging calls made since the last successful Init
    now,            \* time.Now(), monotonic
    req,            \* the gin.Context of the request being served
    emitted,        \* entries GinZap handed to the logger for this request
    wpc,            \* concurrent writers: position of each worker
    wcore,          \* concurrent writers: index of the core being written
    lock,           \* concurrent writers: holder of each core's sink lock
    stream          \* concurrent writers: chunks received by each core's sink

vars == <<globalLogger, sugaredLogger, out, initErr, applied, lastOp, written, now,
          req, emitted, wpc, wcore, lock, stream>>

loggerVars == <<globalLogger, sugaredLogger, out, initErr, applied, written>>
concVars == <<wpc, wcore, lock, stream>>

----------------------------------------------------------------------------
(* Bounds *)

MaxTargets == 2     \* longest Config.OutputPaths
MaxWritten == 1     \* logging calls started after a successful Init is capped
MaxErrors == 2      \* longest c.Errors a handler leaves
MaxTick == 1        \* largest clock advance while the chain runs
MaxClock == 1       \* the clock is not advanced past this

----------------------------------------------------------------------------
(* zapcore levels *)

DebugLevel == 0 - 1
InfoLevel == 0
WarnLevel == 1
ErrorLevel == 2
DPanicLevel == 3
PanicLevel == 4
FatalLevel == 5

CallLevels == {DebugLevel, InfoLevel, WarnLevel, ErrorLevel}

\* Level texts offered to Init: the names of the levels, the empty text, and
\* a text zap does not know.
LevelTexts == {"debug", "info", "warn", "error", "dpanic", "panic", "fatal",
               "", "verbose"}

\* level.UnmarshalText: the level a text names, or a failure.
UnmarshalText(text) ==
    CASE text \in {"debug"} -> [ok |-> TRUE, level |-> DebugLevel]
      [] text \in {"info", ""} -> [ok |-> TRUE, level |-> InfoLevel]
      [] text \in {"warn", "WARN"} -> [ok |-> TRUE, level |-> WarnLevel]
      [] text \in {"error"} -> [ok |-> TRUE, level |-> ErrorLevel]
      [] text \in {"dpanic"} -> [ok |-> TRUE, level |-> DPanicLevel]
      [] text \in {"panic"} -> [ok |-> TRUE, level |-> PanicLevel]
      [] text \in {"fatal"} -> [ok |-> TRUE, level |-> FatalLevel]
      [] OTHER -> [ok |-> FALSE, level |-> InfoLevel]

----------------------------------------------------------------------------
(* Config and Init *)

Targets == {"stdout", "stderr", "a.log", "b.log"}

\* Levels and targets the configurations with several targets are drawn from.
FewLevels == {"info", "verbose"}
FewTargets == {"stdout", "a.log", "b.log"}

RECURSIVE SeqsUpTo(_, _)
SeqsUpTo(S, n) ==
    IF n = 0 THEN {<<>>}
    ELSE LET shorter == SeqsUpTo(S, n - 1)
         IN  shorter \cup {Append(s, x) : s \in shorter, x \in S}

\* Config values handed to Init: every level with at most one target, and
\* few levels with up to MaxTargets targets.
Configs ==
    [Development : BOOLEAN, Level : LevelTexts, OutputPaths : SeqsUpTo(Targets, 1)]
        \cup [Development : BOOLEAN, Level : FewLevels,
              OutputPaths : SeqsUpTo(FewTargets, MaxTargets)]

\* Config values handed to Init by a process that serves requests.
RequestConfigs ==
    [Development : BOOLEAN, Level : {"info", "error", "verbose"},
     OutputPaths : {<<>>, <<"a.log">>}]

NilLogger == [nil |-> TRUE, cores |-> <<>>]

\* The console core of lines 65-72.
ConsoleCore(level) == [dest |-> "console", enc |-> "console", level |-> level]

\* The file core of lines 80-93; each has a lumberjack.Logger of its own.
FileCore(path, level) == [dest |-> path, enc |-> "json", level |-> level]

\* The loop of lines 75-94 over config.OutputPaths.
RECURSIVE FileCores(_, _)
FileCores(paths, level) ==
    IF paths = <<>> THEN <<>>
    ELSE IF Head(paths) = "stdout" \/ Head(paths) = "stderr"
         THEN FileCores(Tail(paths), level)
         ELSE <<FileCore(Head(paths), level)>> \o FileCores(Tail(paths), level)

\* var cores []zapcore.Core as it stands at line 97.
BuildCores(config, level) ==
    (IF config.Development THEN <<ConsoleCore(level)>> ELSE <<>>)
        \o FileCores(config.OutputPaths, level)

InitLoggerClearsOnError(config, old) ==
    LET parsed == UnmarshalText(config.Level)
    IN  IF ~parsed.ok THEN NilLogger
        ELSE [nil |-> FALSE, cores |-> BuildCores(config, parsed.level)]

\* The value Init leaves in globalLogger: untouched when the level does not
\* parse (the return of line 38), a new logger otherwise (line 113).
InitLogger(config, old) ==
    LET parsed == UnmarshalText(config.Level)
    IN  IF ~parsed.ok THEN old
        ELSE [nil |-> FALSE, cores |-> BuildCores(config, parsed.level)]

\* globalLogger.Sugar(): a sugared front of the same cores.
Sugar(logger) == logger


----------------------------------------------------------------------------
(* Entries and the cores' fan-out *)

NoFields == [k \in {} |-> ""]

Entry(lvl, msg, fields) == [level |-> lvl, msg |-> msg, fields |-> fields]

EnabledStrict(core, lvl) == lvl > core.level

\* ioCore.Enabled: the core's level admits lvl.
Enabled(core, lvl) == lvl >= core.level

\* The tee of line 97: the entry goes to every core whose level admits it.
Write(cores, o, ent) ==
    [i \in 1..Len(cores) |->
        IF Enabled(cores[i], ent.level) THEN Append(o[i], ent) ELSE o[i]]

\* A sequence of entries written one after the other.
RECURSIVE WriteAll(_, _, _)
WriteAll(cores, o, ents) ==
    IF ents = <<>> THEN o
    ELSE WriteAll(cores, Write(cores, o, Head(ents)), Tail(ents))

\* Whether the tee admits lvl at all (Logger.check returns nil otherwise).
TeeEnabled(cores, lvl) == \E i \in 1..Len(cores) : Enabled(cores[i], lvl)

\* The structured fields the sugared logger makes of a key/value list: one
\* field per complete pair.
SweetenFields(kv) ==
    LET n == Len(kv) \div 2
    IN  [key \in {kv[2 * i - 1] : i \in 1..n} |->
            kv[2 * (CHOOSE i \in 1..n : kv[2 * i - 1] = key)]]

OddNumberErrMsg == "Ignored key without a value."

\* What sugaredLogger.<Level>w hands to the cores: nothing when the level is
\* not admitted; otherwise the entry, preceded by an error-level entry
\* flagging a dangling key when the list has odd length.
SugaredEntries(cores, lvl, msg, kv) ==
    IF ~TeeEnabled(cores, lvl) THEN <<>>
    ELSE (IF Len(kv) % 2 = 1
          THEN <<Entry(ErrorLevel, OddNumberErrMsg, [ignored |-> kv[Len(kv)]])>>
          ELSE <<>>)
         \o <<Entry(lvl, msg, SweetenFields(kv))>>

----------------------------------------------------------------------------
(* Operations of the logger package *)

Idle == [phase |-> "idle", chain |-> <<>>, index |-> 1, frames |-> <<>>,
         header |-> "", requestId |-> "", respHeader |-> "", errors |-> <<>>,
         status |-> 200, path |-> "/", generated |-> FALSE, nextCalls |-> 0]

NoConfig == [Development |-> FALSE, Level |-> "", OutputPaths |-> <<>>]

Op(name, lvl, panicked, wellFormed, config) ==
    [op |-> name, level |-> lvl, panicked |-> panicked, wellFormed |-> wellFormed,
     text |-> config.Level]

\* func Init(config Config) error
InitOp(config) ==
    /\ req.phase \in {"idle", "done", "panicked"}
    /\ globalLogger' = InitLogger(config, globalLogger)
    /\ sugaredLogger' = IF UnmarshalText(config.Level).ok
                        THEN Sugar(globalLogger') ELSE sugaredLogger
    /\ initErr' = IF UnmarshalText(config.Level).ok THEN "nil" ELSE "error"
    /\ out' = IF UnmarshalText(config.Level).ok
              THEN [i \in 1..Len(globalLogger'.cores) |-> <<>>] ELSE out
    /\ written' = IF UnmarshalText(config.Level).ok THEN 0 ELSE written
    /\ applied' = IF UnmarshalText(config.Level).ok THEN config ELSE applied
    /\ lastOp' = Op("Init", InfoLevel, FALSE, TRUE, config)
    /\ UNCHANGED <<now, req, emitted, concVars>>

Msgs == {"m"}
FieldSets == {NoFields}
KeyValues == {<<>>, <<"k", "v">>, <<"k">>}

\* Debug / Info / Warn / Error (msg, fields...): globalLogger.<Level>
Leveled(lvl, msg, fields) ==
    /\ req.phase \in {"idle", "done", "panicked"}
    /\ written < MaxWritten
    /\ IF globalLogger.nil
       THEN /\ lastOp' = Op("Leveled", lvl, TRUE, TRUE, NoConfig)
            /\ UNCHANGED <<out, written>>
       ELSE /\ out' = Write(globalLogger.cores, out, Entry(lvl, msg, fields))
            /\ written' = written + 1
            /\ lastOp' = Op("Leveled", lvl, FALSE, TRUE, NoConfig)
    /\ UNCHANGED <<globalLogger, sugaredLogger, initErr, applied, now, req, emitted, concVars>>

\* Debugf / Infof / Warnf / Errorf (template, args...): sugaredLogger.<Level>f
Formatted(lvl, template) ==
    /\ req.phase \in {"idle", "done", "panicked"}
    /\ written < MaxWritten
    /\ IF sugaredLogger.nil
       THEN /\ lastOp' = Op("Formatted", lvl, TRUE, TRUE, NoConfig)
            /\ UNCHANGED <<out, written>>
       ELSE /\ out' = Write(sugaredLogger.cores, out, Entry(lvl, template, NoFields))
            /\ written' = written + 1
            /\ lastOp' = Op("Formatted", lvl, FALSE, TRUE, NoConfig)
    /\ UNCHANGED <<globalLogger, sugaredLogger, initErr, applied, now, req, emitted, concVars>>

\* Debugw / Infow / Warnw / Errorw (msg, keysAndValues...): sugaredLogger.<Level>w
Contextual(lvl, msg, kv) ==
    /\ req.phase \in {"idle", "done", "panicked"}
    /\ written < MaxWritten
    /\ IF sugaredLogger.nil
       THEN /\ lastOp' = Op("Contextual", lvl, TRUE, Len(kv) % 2 = 0, NoConfig)
            /\ UNCHANGED <<out, written>>
       ELSE /\ out' = WriteAll(sugaredLogger.cores, out,
                               SugaredEntries(sugaredLogger.cores, lvl, msg, kv))
            /\ written' = written + 1
            /\ lastOp' = Op("Contextual", lvl, FALSE, Len(kv) % 2 = 0, NoConfig)
    /\ UNCHANGED <<globalLogger, sugaredLogger, initErr, applied, now, req, emitted, concVars>>

----------------------------------------------------------------------------
(* The gin handler chain: RequestIDMiddleware, GinZap, a route handler *)

\* Registration orders of the two middlewares in front of a route handler.
Chains == {<<"RequestID", "GinZap", "route">>, <<"GinZap", "RequestID", "route">>,
           <<"GinZap", "route">>, <<"RequestID", "route">>}

InboundIDs == {"", "abc"}            \* c.GetHeader("X-Request-ID"); "" when absent
UUIDs == {"u1", "u2"}                \* values uuid.New().String() may return
Paths == {"/", "/health"}            \* the routes of main.go
ErrorTexts == {"boom", "bad"}
Statuses == {200, 500}

Method == "GET"
RawQuery == ""
ClientIP == "10.0.0.1"
UserAgent == "curl"

ResolveAlwaysGenerates(header, fresh) == fresh

\* Lines 49-52: the inbound header, or a generated identifier when it is empty.
ResolveID(header, fresh) == IF header = "" THEN fresh ELSE header

\* end.Sub(start)
Latency(start, end) == end - start

CompletionFieldsEntryID(status, path, latency, c, atEntry) ==
    [status |-> status, method |-> Method, path |-> path, query |-> RawQuery,
     ip |-> ClientIP, latency |-> latency]
        @@ ("user-agent" :> UserAgent) @@ ("request-id" :> atEntry)

\* The fields of lines 33-40; c.GetString("requestId") is read here, after
\* the chain has returned.  atEntry is the key's value when GinZap was entered.
CompletionFields(status, path, latency, c, atEntry) ==
    [status |-> status, method |-> Method, path |-> path, query |-> RawQuery,
     ip |-> ClientIP, latency |-> latency]
        @@ ("user-agent" :> UserAgent) @@ ("request-id" :> c.requestId)

\* Lines 26-42: the entries GinZap passes to logger.Error / logger.Info.
GinZapEntries(c, frame, end) ==
    IF Len(c.errors) > 0
    THEN [i \in 1..Len(c.errors) |-> Entry(ErrorLevel, c.errors[i], NoFields)]
    ELSE <<Entry(InfoLevel, frame.path,
                 CompletionFields(c.status, frame.path,
                                  Latency(frame.start, end), c, frame.idAtEntry))>>

Quiet == req.phase \in {"idle", "done", "panicked"}

\* The handler gin runs next: handlers[c.index].
Current == IF req.phase = "running" /\ req.index <= Len(req.chain)
           THEN req.chain[req.index] ELSE "none"

\* A request arrives and gin builds its context.
NewRequest(chain, header, path) ==
    /\ Quiet
    /\ written < MaxWritten
    /\ req' = [Idle EXCEPT !.phase = "running", !.chain = chain,
                           !.header = header, !.path = path]
    /\ emitted' = <<>>
    /\ lastOp' = Op("NewRequest", InfoLevel, FALSE, TRUE, NoConfig)
    /\ UNCHANGED <<loggerVars, now, concVars>>

RequestIDSkipsNext(fresh) ==
    /\ Current = "RequestID"
    /\ LET id == ResolveID(req.header, fresh)
       IN  req' = [req EXCEPT !.requestId = id, !.respHeader = id,
                              !.generated = (req.header = ""),
                              !.phase = IF req.frames = <<>> THEN "done" ELSE "running",
                              !.index = Len(req.chain) + 1]
    /\ lastOp' = Op("RequestIDMiddleware", InfoLevel, FALSE, TRUE, NoConfig)
    /\ UNCHANGED <<loggerVars, now, emitted, concVars>>

\* RequestIDMiddleware, lines 49-55: up to and including the call of c.Next().
RequestIDMiddleware(fresh) ==
    /\ Current = "RequestID"
    /\ LET id == ResolveID(req.header, fresh)
       IN  req' = [req EXCEPT !.requestId = id, !.respHeader = id,
                              !.generated = (req.header = ""),
                              !.nextCalls = @ + 1,
                              !.frames = Append(@, [handler |-> "RequestID", start |-> 0,
                                                    path |-> "", idAtEntry |-> ""]),
                              !.index = @ + 1]
    /\ lastOp' = Op("RequestIDMiddleware", InfoLevel, FALSE, TRUE, NoConfig)
    /\ UNCHANGED <<loggerVars, now, emitted, concVars>>

\* GinZap, lines 16-21: start, path and query are taken, then c.Next().
GinZapEnter ==
    /\ Current = "GinZap"
    /\ req' = [req EXCEPT !.frames = Append(@, [handler |-> "GinZap", start |-> now,
                                                path |-> req.path,
                                                idAtEntry |-> req.requestId]),
                          !.index = @ + 1]
    /\ lastOp' = Op("GinZapEnter", InfoLevel, FALSE, TRUE, NoConfig)
    /\ UNCHANGED <<loggerVars, now, emitted, concVars>>

\* The route handler: it writes a status, may append error strings to
\* c.Errors, and takes some time.
RouteHandler(status, errs, d) ==
    /\ Current = "route"
    /\ now + d <= MaxClock
    /\ now' = now + d
    /\ req' = [req EXCEPT !.status = status, !.errors = errs, !.index = @ + 1,
                          !.phase = IF req.frames = <<>> THEN "done" ELSE "running"]
    /\ lastOp' = Op("RouteHandler", InfoLevel, FALSE, TRUE, NoConfig)
    /\ UNCHANGED <<loggerVars, emitted, concVars>>

\* The frame whose c.Next() has just returned.
Returning == IF req.phase = "running" /\ req.index > Len(req.chain) /\ req.frames # <<>>
             THEN req.frames[Len(req.frames)] ELSE [handler |-> "none"]

Pop(c) == [c EXCEPT !.frames = SubSeq(@, 1, Len(@) - 1),
                    !.phase = IF Len(c.frames) = 1 THEN "done" ELSE "running"]

\* RequestIDMiddleware, line 56: c.Next() has returned and so does the handler.
RequestIDReturn ==
    /\ Returning.handler = "RequestID"
    /\ req' = Pop(req)
    /\ lastOp' = Op("RequestIDReturn", InfoLevel, FALSE, TRUE, NoConfig)
    /\ UNCHANGED <<loggerVars, now, emitted, concVars>>

\* GinZap, lines 23-43: c.Next() has returned; the outcome is logged through
\* the package's Error / Info, which dereference globalLogger.
GinZapExit ==
    /\ Returning.handler = "GinZap"
    /\ IF globalLogger.nil
       THEN /\ req' = [req EXCEPT !.phase = "panicked", !.frames = <<>>]
            /\ lastOp' = Op("GinZapExit", InfoLevel, TRUE, TRUE, NoConfig)
            /\ UNCHANGED <<out, written, emitted>>
       ELSE LET ents == GinZapEntries(req, Returning, now)
            IN  /\ emitted' = emitted \o ents
                /\ out' = WriteAll(globalLogger.cores, out, ents)
                /\ written' = written + Len(ents)
                /\ req' = Pop(req)
                /\ lastOp' = Op("GinZapExit", InfoLevel, FALSE, TRUE, NoConfig)
    /\ UNCHANGED <<globalLogger, sugaredLogger, initErr, applied, now, concVars>>

----------------------------------------------------------------------------
(* Concurrent in-flight requests logging through the shared logger *)

NumWorkers == 2     \* requests in flight at once
Chunks == 2         \* write calls the file descriptor needs for one record

Workers == 1..NumWorkers

\* Configurations the concurrent runs start from, Init having completed.
ConcConfigs ==
    {[Development |-> TRUE, Level |-> "info", OutputPaths |-> <<"a.log">>],
     [Development |-> FALSE, Level |-> "error", OutputPaths |-> <<"a.log", "b.log">>],
     [Development |-> TRUE, Level |-> "debug", OutputPaths |-> <<"stderr", "a.log", "a.log">>]}

\* The first core at or after index from that admits lvl; Len(cores) + 1 if none.
NextCore(cores, lvl, from) ==
    IF \E i \in from..Len(cores) : Enabled(cores[i], lvl)
    THEN CHOOSE i \in from..Len(cores) :
            /\ Enabled(cores[i], lvl)
            /\ \A j \in from..(i - 1) : ~Enabled(cores[j], lvl)
    ELSE Len(cores) + 1

Advance(w, from) ==
    LET i == NextCore(globalLogger.cores, wpc[w].lvl, from)
    IN  /\ wcore' = [wcore EXCEPT ![w] = i]
        /\ wpc' = [wpc EXCEPT ![w].at = IF i > Len(globalLogger.cores)
                                        THEN "done" ELSE "acquire",
                              ![w].chunk = 0]

\* GinZap's logger.Info / logger.Error of lines 29 and 32 in worker w: the
\* entry is checked against the tee and encoded.
WCall(w, lvl) ==
    /\ wpc[w].at = "idle"
    /\ LET i == NextCore(globalLogger.cores, lvl, 1)
       IN  /\ wcore' = [wcore EXCEPT ![w] = i]
           /\ wpc' = [wpc EXCEPT ![w] = [at |-> IF i > Len(globalLogger.cores)
                                                THEN "done" ELSE "acquire",
                                         lvl |-> lvl, chunk |-> 0]]
    /\ UNCHANGED <<loggerVars, lastOp, now, req, emitted, lock, stream>>

WAcquireNoLock(w) ==
    /\ wpc[w].at = "acquire"
    /\ lock' = [lock EXCEPT ![wcore[w]] = w]
    /\ wpc' = [wpc EXCEPT ![w].at = "write"]
    /\ UNCHANGED <<loggerVars, lastOp, now, req, emitted, wcore, stream>>

\* The sink's mutex is taken: zapcore.Lock(os.Stdout) of line 69 for the
\* console, the lumberjack.Logger of line 81 for a file.
WAcquire(w) ==
    /\ wpc[w].at = "acquire"
    /\ lock[wcore[w]] = 0
    /\ lock' = [lock EXCEPT ![wcore[w]] = w]
    /\ wpc' = [wpc EXCEPT ![w].at = "write"]
    /\ UNCHANGED <<loggerVars, lastOp, now, req, emitted, wcore, stream>>

\* One write call on the sink's file descriptor, under the mutex.
WWrite(w) ==
    /\ wpc[w].at = "write"
    /\ stream' = [stream EXCEPT ![wcore[w]] = Append(@, <<w, wpc[w].chunk + 1>>)]
    /\ wpc' = [wpc EXCEPT ![w].chunk = @ + 1,
                          ![w].at = IF wpc[w].chunk + 1 = Chunks THEN "release" ELSE "write"]
    /\ UNCHANGED <<loggerVars, lastOp, now, req, emitted, wcore, lock>>

\* The mutex is released and the tee moves on to its next core.
WRelease(w) ==
    /\ wpc[w].at = "release"
    /\ lock' = [lock EXCEPT ![wcore[w]] = 0]
    /\ Advance(w, wcore[w] + 1)
    /\ UNCHANGED <<loggerVars, lastOp, now, req, emitted, stream>>

----------------------------------------------------------------------------
(* Specifications *)

NoWorkers == [w \in Workers |-> [at |-> "idle", lvl |-> InfoLevel, chunk |-> 0]]

\* The process after package initialisation: main (src/main.go) builds the
\* router and serves without calling Init, so both loggers are nil.
Init ==
    /\ globalLogger = NilLogger
    /\ sugaredLogger = NilLogger
    /\ out = <<>>
    /\ initErr = "none"
    /\ applied = NoConfig
    /\ lastOp = Op("start", InfoLevel, FALSE, TRUE, NoConfig)
    /\ written = 0
    /\ now = 0
    /\ req = Idle
    /\ emitted = <<>>
    /\ wpc = NoWorkers
    /\ wcore = [w \in Workers |-> 1]
    /\ lock = <<>>
    /\ stream = <<>>

\* The logger package driven directly: Init and the logging calls.
LoggerNext ==
    \/ \E config \in Configs : InitOp(config)
    \/ \E lvl \in CallLevels, msg \in Msgs, fields \in FieldSets : Leveled(lvl, msg, fields)
    \/ \E lvl \in CallLevels, template \in Msgs : Formatted(lvl, template)
    \/ \E lvl \in CallLevels, msg \in Msgs, kv \in KeyValues : Contextual(lvl, msg, kv)

SpecLogger == Init /\ [][LoggerNext]_vars

\* The server: Init may or may not have been called, requests are served one
\* handler at a time.
Next ==
    \/ \E config \in RequestConfigs : InitOp(config)
    \/ \E chain \in Chains, header \in InboundIDs, path \in Paths :
            NewRequest(chain, header, path)
    \/ \E fresh \in UUIDs : RequestIDMiddleware(fresh)
    \/ GinZapEnter
    \/ \E status \in Statuses, errs \in SeqsUpTo(ErrorTexts, MaxErrors), d \in 0..MaxTick :
            RouteHandler(status, errs, d)
    \/ RequestIDReturn
    \/ GinZapExit

Spec == Init /\ [][Next]_vars

\* Several requests in flight after Init(config) has completed.
ConcInit ==
    /\ applied \in ConcConfigs
    /\ globalLogger = InitLogger(applied, NilLogger)
    /\ lastOp = Op("Init", InfoLevel, FALSE, TRUE, applied)
    /\ sugaredLogger = Sugar(globalLogger)
    /\ out = [i \in 1..Len(globalLogger.cores) |-> <<>>]
    /\ initErr = "nil"
    /\ written = 0
    /\ now = 0
    /\ req = Idle
    /\ emitted = <<>>
    /\ wpc = NoWorkers
    /\ wcore = [w \in Workers |-> 1]
    /\ lock = [i \in 1..Len(globalLogger.cores) |-> 0]
    /\ stream = [i \in 1..Len(globalLogger.cores) |-> <<>>]

ConcNext ==
    \/ \E w \in Workers, lvl \in {InfoLevel, ErrorLevel} : WCall(w, lvl)
    \/ \E w \in Workers : WAcquire(w)
    \/ \E w \in Workers : WWrite(w)
    \/ \E w \in Workers : WRelease(w)

SpecConc == ConcInit /\ [][ConcNext]_vars

----------------------------------------------------------------------------
(* Properties *)

IsCall(o) == o.op \in {"Leveled", "Formatted", "Contextual"}

InfoEntries == {k \in 1..Len(emitted) : emitted[k].level = InfoLevel}

HasRun(name) ==
    \E k \in 1..Len(req.chain) : req.chain[k] = name /\ req.index > k

InChain(name) == \E k \in 1..Len(req.chain) : req.chain[k] = name

\* GinZap's part of the request is over: it returned or it panicked.
GinZapOver == InChain("GinZap") /\ req.phase \in {"done", "panicked"}

\* C1: a request that carries a non-empty inbound X-Request-ID v and has
\* passed RequestIDMiddleware has response header X-Request-ID = v, no
\* identifier was generated for it, and every completion (info) record GinZap
\* emitted for it has request-id = v.
C1_InboundIdEchoed ==
    (req.header # "" /\ HasRun("RequestID")) =>
        /\ req.respHeader = req.header
        /\ req.requestId = req.header
        /\ ~req.generated
        /\ \A k \in InfoEntries : emitted[k].fields["request-id"] = req.header

C1_Witness ==
    /\ req.phase = "done"
    /\ req.chain = <<"RequestID", "GinZap", "route">>
    /\ req.header = "abc"
    /\ InfoEntries = {1}

CompletionKeys == {"status", "method", "path", "query", "ip", "user-agent",
                   "latency", "request-id"}

\* C2: for every request whose error accumulator is empty when the wrapped
\* chain returns, GinZap emits exactly one info-level record and no
\* error-level record; the record carries status, method, path, query, client
\* IP, user agent, a latency >= 0 and the request's correlation identifier.
C2_OneCompletionRecord ==
    (GinZapOver /\ req.errors = <<>>) =>
        /\ Len(emitted) = 1
        /\ emitted[1].level = InfoLevel
        /\ DOMAIN emitted[1].fields = CompletionKeys
        /\ emitted[1].fields["status"] = req.status
        /\ emitted[1].fields["method"] = Method
        /\ emitted[1].fields["path"] = req.path
        /\ emitted[1].fields["latency"] >= 0
        /\ emitted[1].fields["request-id"] = req.requestId

\* C3: for every request whose error accumulator holds n >= 1 strings when the
\* wrapped chain returns, GinZap emits exactly n error-level records, one per
\* string in accumulator order, the error text as message and no fields, and
\* no info-level completion record.
C3_OneErrorRecordPerError ==
    (GinZapOver /\ Len(req.errors) >= 1) =>
        /\ Len(emitted) = Len(req.errors)
        /\ \A k \in 1..Len(req.errors) :
                emitted[k] = Entry(ErrorLevel, req.errors[k], NoFields)

\* The level names zap recognises among the texts offered.
Recognised == {"debug", "info", "warn", "error", "dpanic", "panic", "fatal", ""}

\* C4 (as claimed): after an Init that failed, no logger set by an earlier Init
\* can be used any more: both package loggers are nil.
C4_FailedInitLeavesNoLogger ==
    initErr = "error" => (globalLogger.nil /\ sugaredLogger.nil)

\* C4 (amended): an Init with an unrecognised level fails with an error and
\* leaves the package loggers and their sinks exactly as they were, so a logger
\* set by an earlier successful Init stays in use.
C4_FailedInitKeepsLogger ==
    [][(lastOp'.op = "Init" /\ lastOp'.text \notin Recognised) =>
            /\ initErr' = "error"
            /\ globalLogger' = globalLogger
            /\ sugaredLogger' = sugaredLogger
            /\ out' = out]_vars

C4_Witness ==
    /\ initErr = "error"
    /\ ~globalLogger.nil
    /\ IsCall(lastOp) /\ ~lastOp.panicked
    /\ \E i \in 1..Len(out) : out[i] # <<>>

\* The six level names of the claim and their order of severity.
SixLevels == {"debug", "info", "warn", "error", "fatal", "panic"}

Severity(name) ==
    CASE name = "debug" -> 0 - 1
      [] name = "info" -> 0
      [] name = "warn" -> 1
      [] name = "error" -> 2
      [] name = "panic" -> 4
      [] name = "fatal" -> 5

\* What a logging call of severity lvl did to the sinks of a logger built
\* with minimum level name: one more record, of that severity, in every sink
\* when lvl >= L, and nothing in any sink when lvl < L.
GatedByLevel(name, lvl, before, after) ==
    /\ Len(after) = Len(before)
    /\ \A i \in 1..Len(before) :
        IF lvl >= Severity(name)
        THEN /\ Len(after[i]) = Len(before[i]) + 1
             /\ SubSeq(after[i], 1, Len(before[i])) = before[i]
             /\ after[i][Len(after[i])].level = lvl
        ELSE after[i] = before[i]

InitSucceedsForSix ==
    (lastOp'.op = "Init" /\ lastOp'.text \in SixLevels) =>
        (initErr' = "nil" /\ ~globalLogger'.nil /\ ~sugaredLogger'.nil)

C6_ResolvesAndProceeds ==
    /\ HasRun("RequestID") =>
        /\ req.requestId = IF req.header # "" THEN req.header ELSE req.requestId
        /\ req.header = "" => (req.requestId \in UUIDs /\ req.generated)
        /\ req.requestId # ""
        /\ req.respHeader = req.requestId
        /\ req.nextCalls = 1
        /\ HasRun("route") \/ Current = "route" \/ Current = "GinZap"
    /\ ~HasRun("RequestID") => req.nextCalls = 0

C6_Witness ==
    /\ req.phase = "done"
    /\ req.header = ""
    /\ req.requestId \in UUIDs
    /\ req.respHeader = req.requestId
    /\ req.nextCalls = 1
    /\ HasRun("route")

\* C7: GinZap never raises, whatever the state of the process-wide logger.
C7_GinZapNeverRaises == req.phase # "panicked"

\* Every chunk but a record's first directly follows the chunk before it of
\* the same record, and every chunk but a record's last is directly followed
\* by the next one unless the record is still being written.
Contiguous(s) ==
    /\ \A k \in 1..Len(s) :
            s[k][2] > 1 => (k > 1 /\ s[k - 1] = <<s[k][1], s[k][2] - 1>>)
    /\ \A k \in 1..(Len(s) - 1) :
            s[k][2] < Chunks => s[k + 1] = <<s[k][1], s[k][2] + 1>>

Occurrences(s, x) == Cardinality({k \in 1..Len(s) : s[k] = x})

AllDone == \A w \in Workers : wpc[w].at = "done"

DestOf(target) == IF target \in {"stdout", "stderr"} THEN "console" ELSE target

\* C9: every entry of outputTargets is a destination of the logger Init
\* built ("stdout" / "stderr": the console sink; anything else: a file sink at
\* that path), and a record the minimum level admits is written to the
\* destination of each configured target.
C9_EveryTargetIsADestination ==
    ~globalLogger.nil =>
        \A k \in 1..Len(applied.OutputPaths) :
            /\ \E i \in 1..Len(globalLogger.cores) :
                    globalLogger.cores[i].dest = DestOf(applied.OutputPaths[k])
            /\ (/\ IsCall(lastOp) /\ ~lastOp.panicked
                /\ lastOp.level >= UnmarshalText(applied.Level).level) =>
                    \E i \in 1..Len(globalLogger.cores) :
                        /\ globalLogger.cores[i].dest = DestOf(applied.OutputPaths[k])
                        /\ out[i] # <<>>
                        /\ out[i][Len(out[i])].level = lastOp.level

\* C10: GinZap reads the correlation identifier after the wrapped chain has
\* returned: with RequestIDMiddleware in the chain, before or after GinZap,
\* the request-id of every completion record equals the X-Request-ID response
\* header; without it the request-id is the empty string.
C10_RecordIdIsResponseHeader ==
    \A k \in InfoEntries :
        /\ InChain("RequestID") =>
            /\ emitted[k].fields["request-id"] = req.respHeader
            /\ req.respHeader # ""
        /\ ~InChain("RequestID") => emitted[k].fields["request-id"] = ""

C10_Witness ==
    /\ req.phase = "done"
    /\ req.chain = <<"GinZap", "RequestID", "route">>
    /\ InfoEntries = {1}
    /\ emitted[1].fields["request-id"] = req.respHeader
    /\ req.respHeader \in UUIDs

=============================================================================
